---------------------------- MODULE Spec2Model ----------------------------
(***************************************************************************)
(* Model of TWIST/Microgrid/AC_client_server/main.cpp: the firmware of an  *)
(* AC server board (voltage forming) and an AC client board (current       *)
(* following).  The file is compiled for one role; the model keeps one     *)
(* copy of the globals per role and a set `powered` of the boards that     *)
(* run.  Floats are modelled on integer grids:                             *)
(*   - voltages, currents and the regulator output in whole units,         *)
(*   - duty_cycle in units of 1/(2*Udc) (so 0.5 is Udc and 1.0 is 2*Udc),  *)
(*   - k_gain in tenths, Iref in tenths of the current unit,               *)
(*   - w0 in units of 2*PI rad/s, angle in steps of 2*PI/PhaseSteps.       *)
(***************************************************************************)
EXTENDS Integers, Sequences, FiniteSets, TLC

(* ------------------------------ bounds -------------------------------- *)
\* Number of records of record_array in the model (2048 in the source).
RECORD_SIZE == 3
\* How far the 'l' / 'm' commands may move k_gain from its default, in tenths.
MaxGainSteps == 1

(* ------------------------- program constants -------------------------- *)
NB_CURVES == 7
Udc == 40
f0 == 50
Vgrid_amplitude == 12
K_GAIN_DEFAULT == 10
IDLEMODE == 0
POWERMODE == 1
\* The sanity window of a measurement is the open interval (-MEAS_LIMIT, MEAS_LIMIT).
MEAS_LIMIT == 10000
\* Steps of the phase accumulator per period (w0 * Ts is 2*PI/200 in the source).
PhaseSteps == 4

Roles == {"SERVER", "CLIENT"}

\* The seven float fields of record_t, in declaration order.
RecordFields == <<"I_low", "V_low", "Vhigh_value", "Iref", "duty_cycle", "Vgrid", "angle">>

\* A zero-initialised record_t.
ZeroRecord ==
    [I_low |-> 0, V_low |-> 0, Vhigh_value |-> 0, Iref |-> 0,
     duty_cycle |-> 0, Vgrid |-> 0, angle |-> 0]

\* A zero-initialised consigne_struct.
ZeroConsigne ==
    [Vref_fromSERVER |-> 0, Iref_fromSERVER |-> 0, w0_fromSERVER |-> 0,
     id_and_status |-> 0]

\* One latest value per measurement channel.
Sample(i1, v1, v2, i2, vh) == [I1 |-> i1, V1 |-> v1, V2 |-> v2, I2 |-> i2, VH |-> vh]

\* The console before any download: no line printed.
NoOutput == [lines |-> 0, last |-> <<>>]

\* The console after one more line.
Printed(con, line) == [lines |-> con.lines + 1, last |-> line]

\* No frame on the RS485 line.
NoFrame == [none |-> TRUE]

VARIABLES
    powered,               \* the boards that run in this behaviour
    pwm_enable,            \* [role] static bool pwm_enable
    mode,                  \* [role] uint8_t mode
    received_serial_char,  \* [role] last character read from the console
    I1_low_value, V1_low_value, V2_low_value, I2_low_value, V_high,  \* [role]
    Iref, Vgrid, w0,       \* [role] references
    duty_cycle,            \* [role]
    angle,                 \* server: phase accumulator
    k_gain,                \* server: droop gain, in tenths
    pr_value,              \* client: last regulator output
    tx_consigne,           \* server: transmit buffer
    rx_consigne,           \* client: receive buffer
    status,                \* client: last accepted status byte
    counter_time,          \* [role] cycle counter, kept modulo 4
    is_downloading,        \* [role]
    record_array,          \* [role] 0..RECORD_SIZE-1 -> record_t
    counter,               \* [role] record cursor
    app_pc,                \* [role] where loop_application_task is: "wait" or "drain"
    k_download,            \* [role] word index of the download loop
    console,               \* [role] the download's output: lines printed since the last
                           \*        start marker, and the last line printed
    rs485,                 \* frame handed to the transport by the server, or NoFrame
    hw_calls,              \* [role] driver calls made by the last critical tick, in order
    last_eval,             \* [role] branch the last critical tick took: "idle", "power" ("none" before the first)
    cycle,                 \* [role] parity of the number of critical ticks run so far
    latest,                \* [role] the samples data.getLatest returned to the last critical tick
    rx_fresh,              \* client: reception_function ran since the last critical tick
    appended               \* [role] record ticks since the cursor was last reset (saturating)

vars ==
    <<powered, pwm_enable, mode, received_serial_char, I1_low_value, V1_low_value,
      V2_low_value, I2_low_value, V_high, Iref, Vgrid, w0, duty_cycle, angle, k_gain,
      pr_value, tx_consigne, rx_consigne, status, counter_time, is_downloading,
      record_array, counter, app_pc, k_download, console, rs485, hw_calls, last_eval, cycle, latest,
      rx_fresh, appended>>

\* Everything but received_serial_char.
vars_but_char ==
    <<powered, pwm_enable, mode, I1_low_value, V1_low_value,
      V2_low_value, I2_low_value, V_high, Iref, Vgrid, w0, duty_cycle, angle, k_gain,
      pr_value, tx_consigne, rx_consigne, status, counter_time, is_downloading,
      record_array, counter, app_pc, k_download, console, rs485, hw_calls, last_eval, cycle, latest,
      rx_fresh, appended>>

\* Everything but received_serial_char and mode.
vars_but_char_mode ==
    <<powered, pwm_enable, I1_low_value, V1_low_value,
      V2_low_value, I2_low_value, V_high, Iref, Vgrid, w0, duty_cycle, angle, k_gain,
      pr_value, tx_consigne, rx_consigne, status, counter_time, is_downloading,
      record_array, counter, app_pc, k_download, console, rs485, hw_calls, last_eval, cycle, latest,
      rx_fresh, appended>>

meas_vars == <<I1_low_value, V1_low_value, V2_low_value, I2_low_value, V_high>>

\* Saturation bound of the history counter `appended`.
AppendCap == RECORD_SIZE + 1

(* --------------------------- pure helpers ----------------------------- *)

\* x >> 6 on a uint8_t.
ShiftRight6(x) == x \div 64

\* x & 2 and x & 0x3 on a uint8_t.
BitAnd2(x) == ((x \div 2) % 2) * 2
BitAnd3(x) == x % 4

\* Mutant of FrameAccepted: the marker is the top bit.
FrameAcceptedTopBit(s) == s \div 128 = 1

\* The acceptance test of reception_function: rx_consigne.id_and_status >> 6 == 1.
FrameAccepted(s) == ShiftRight6(s) = 1

\* The cursor-reset test of reception_function: (rx_consigne.id_and_status & 2) == 1.
ResetRequested(s) == BitAnd2(s) = 1

\* Mutant of RunRequested: every code but 0 runs.
RunRequestedNonZero(s) == BitAnd3(s) # 0

\* The run test of the client's critical task.
RunRequested(s) == BitAnd3(s) = 1 \/ BitAnd3(s) = 2

\* The window test of the four low-side channels.
InWindow(m) == m < MEAS_LIMIT /\ m > -MEAS_LIMIT

\* The test of the high-side channel.
VHighTaken(m) == m # -MEAS_LIMIT

\* if (test) held = meas_data;
Latch(test, m, held) == IF test THEN m ELSE held

\* ot_sin on the phase grid.
ot_sin(a) == CASE a = 0 -> 0 [] a = 1 -> 1 [] a = 2 -> 0 [] OTHER -> -1

\* Mutant of PowerStatus: the two codes swapped.
PowerStatusSwapped(c) == IF c = 0 THEN 64 + 1 ELSE 64 + 2

\* The status byte the server builds in Power.
PowerStatus(c) == IF c = 0 THEN 64 + 2 ELSE 64 + 1

\* Mutant of IdleStatus: the continue code.
IdleStatusContinue == 64 + 1

\* The status byte the server builds when it leaves Power.
IdleStatus == 64 + 0

\* duty_cycle of the server and of the client for regulator output u.
ServerDuty(u) == Udc + u
ClientDuty(vg, u) == vg + u + Udc

\* Mutant of NextCounter: the cursor does not saturate.
NextCounterUnbounded(c) == c + 1

\* if (counter < RECORD_SIZE-1) counter++;
NextCounter(c) == IF c < RECORD_SIZE - 1 THEN c + 1 ELSE c

\* The slot the record block writes.
RecordSlot(c) == c

\* Mutant of RecordCycle: every cycle records.
RecordEveryCycle(t) == TRUE

\* Whether this cycle records.
RecordCycle(t) == t % 4 = 0

\* Mutant of PowerAllowed: 'p' is taken during a download too.
PowerAlwaysAllowed(dl) == TRUE

\* The 'p' command's guard.
PowerAllowed(dl) == dl = FALSE

\* Mutant of DownloadWords: the loop stops one word early.
DownloadWordsShort == RECORD_SIZE * NB_CURVES - 1

\* Number of 32-bit words the download prints.
DownloadWords == RECORD_SIZE * NB_CURVES

\* *((uint32_t *)record_array + k)
WordAt(arr, k) == arr[k \div NB_CURVES][RecordFields[(k % NB_CURVES) + 1]]

(* ------------------------------- Init --------------------------------- *)
\* The globals after static initialisation and setup_routine.
InitGlobals ==
    /\ pwm_enable = [r \in Roles |-> FALSE]
    /\ mode = [r \in Roles |-> IDLEMODE]
    /\ received_serial_char = [r \in Roles |-> "NUL"]
    /\ I1_low_value = [r \in Roles |-> 0]
    /\ V1_low_value = [r \in Roles |-> 0]
    /\ V2_low_value = [r \in Roles |-> 0]
    /\ I2_low_value = [r \in Roles |-> 0]
    /\ V_high = [r \in Roles |-> 0]
    /\ Iref = [r \in Roles |-> 0]
    /\ Vgrid = [r \in Roles |-> 0]
    /\ w0 = [r \in Roles |-> f0]
    /\ duty_cycle = [r \in Roles |-> 0]
    /\ angle = 0
    /\ k_gain = K_GAIN_DEFAULT
    /\ pr_value = 0
    /\ tx_consigne = ZeroConsigne
    /\ rx_consigne = ZeroConsigne
    /\ status = 0
    /\ counter_time = [r \in Roles |-> 0]
    /\ is_downloading = [r \in Roles |-> FALSE]
    /\ record_array = [r \in Roles |-> [k \in 0..(RECORD_SIZE - 1) |-> ZeroRecord]]
    /\ counter = [r \in Roles |-> 0]
    /\ app_pc = [r \in Roles |-> "wait"]
    /\ k_download = [r \in Roles |-> 0]
    /\ console = [r \in Roles |-> NoOutput]
    /\ rs485 = NoFrame
    /\ hw_calls = [r \in Roles |-> <<>>]
    /\ last_eval = [r \in Roles |-> "none"]
    /\ cycle = [r \in Roles |-> 0]
    /\ latest = [r \in Roles |-> Sample(0, 0, 0, 0, 0)]
    /\ rx_fresh = FALSE
    /\ appended = [r \in Roles |-> 0]

(* ------------------------ reception_function -------------------------- *)
\* The transport has filled rx_consigne with frame f and calls reception_function.
reception_function(f) ==
    /\ rx_consigne' = f
    /\ rx_fresh' = TRUE
    /\ IF FrameAccepted(f.id_and_status)
       THEN /\ status' = f.id_and_status
            /\ IF ResetRequested(f.id_and_status)
               THEN /\ counter' = [counter EXCEPT !["CLIENT"] = 0]
                    /\ appended' = [appended EXCEPT !["CLIENT"] = 0]
               ELSE UNCHANGED <<counter, appended>>
            /\ Iref' = [Iref EXCEPT !["CLIENT"] = f.Iref_fromSERVER]
            /\ Vgrid' = [Vgrid EXCEPT !["CLIENT"] = f.Vref_fromSERVER]
            /\ w0' = [w0 EXCEPT !["CLIENT"] = f.w0_fromSERVER]
       ELSE UNCHANGED <<status, counter, appended, Iref, Vgrid, w0>>
    /\ UNCHANGED <<powered, pwm_enable, mode, received_serial_char, meas_vars,
                   duty_cycle, angle, k_gain, pr_value, tx_consigne, counter_time,
                   is_downloading, record_array, app_pc, k_download, console, rs485,
                   hw_calls, last_eval, cycle, latest>>

\* A frame from a frame generator wired to a client that runs without a server.
GenFrame(f) ==
    /\ "CLIENT" \in powered
    /\ "SERVER" \notin powered
    /\ reception_function(f)

(* ---------------------- loop_communication_task ----------------------- *)
\* One iteration of the console loop of board r on character c.
loop_communication_task(r, c) ==
    /\ r \in powered
    /\ received_serial_char' = [received_serial_char EXCEPT ![r] = c]
    /\ CASE c = "i" ->
              /\ mode' = [mode EXCEPT ![r] = IDLEMODE]
              /\ counter' = [counter EXCEPT ![r] = 0]
              /\ appended' = [appended EXCEPT ![r] = 0]
              /\ UNCHANGED <<k_gain, is_downloading>>
         [] c = "p" ->
              /\ mode' = [mode EXCEPT ![r] = IF PowerAllowed(is_downloading[r])
                                             THEN POWERMODE ELSE @]
              /\ UNCHANGED <<counter, appended, k_gain, is_downloading>>
         [] c = "l" /\ r = "SERVER" ->
              /\ k_gain < K_GAIN_DEFAULT + MaxGainSteps
              /\ k_gain' = k_gain + 1
              /\ UNCHANGED <<mode, counter, appended, is_downloading>>
         [] c = "m" /\ r = "SERVER" ->
              /\ k_gain > K_GAIN_DEFAULT - MaxGainSteps
              /\ k_gain' = k_gain - 1
              /\ UNCHANGED <<mode, counter, appended, is_downloading>>
         [] c = "r" ->
              /\ is_downloading' = [is_downloading EXCEPT ![r] = TRUE]
              /\ UNCHANGED <<mode, counter, appended, k_gain>>
         [] OTHER ->
              \* 'h' prints the menu; any other character does nothing
              UNCHANGED <<mode, counter, appended, k_gain, is_downloading>>
    /\ UNCHANGED <<powered, pwm_enable, meas_vars, Iref, Vgrid, w0, duty_cycle, angle,
                   pr_value, tx_consigne, rx_consigne, status, counter_time,
                   record_array, app_pc, k_download, console, rs485, hw_calls, last_eval,
                   cycle, latest, rx_fresh>>

(* ----------------------- loop_application_task ------------------------ *)
\* The task wakes up: it prints the status line in Power (no state change) and
\* enters the download when is_downloading is set.
AppWake(r) ==
    /\ app_pc[r] = "wait"
    /\ IF is_downloading[r]
       THEN /\ console' = [console EXCEPT ![r] = Printed(NoOutput, <<"begin record">>)]
            /\ app_pc' = [app_pc EXCEPT ![r] = "drain"]
            /\ k_download' = [k_download EXCEPT ![r] = 0]
       ELSE UNCHANGED <<console, app_pc, k_download>>
    /\ UNCHANGED is_downloading

\* One iteration of the for loop: print word k_download, suspend 1 ms.
DownloadWord(r) ==
    /\ app_pc[r] = "drain"
    /\ k_download[r] < DownloadWords
    /\ console' = [console EXCEPT
                     ![r] = Printed(@, <<"word", WordAt(record_array[r], k_download[r])>>)]
    /\ k_download' = [k_download EXCEPT ![r] = @ + 1]
    /\ UNCHANGED <<app_pc, is_downloading>>

\* The loop is over: print the end marker and clear is_downloading.
DownloadEnd(r) ==
    /\ app_pc[r] = "drain"
    /\ k_download[r] >= DownloadWords
    /\ console' = [console EXCEPT ![r] = Printed(@, <<"end record">>)]
    /\ is_downloading' = [is_downloading EXCEPT ![r] = FALSE]
    /\ app_pc' = [app_pc EXCEPT ![r] = "wait"]
    /\ k_download' = [k_download EXCEPT ![r] = 0]

loop_application_task(r) ==
    /\ r \in powered
    /\ \/ AppWake(r)
       \/ DownloadWord(r)
       \/ DownloadEnd(r)
    /\ UNCHANGED <<powered, pwm_enable, mode, received_serial_char, meas_vars, Iref,
                   Vgrid, w0, duty_cycle, angle, k_gain, pr_value, tx_consigne,
                   rx_consigne, status, counter_time, record_array, counter, rs485,
                   hw_calls, last_eval, cycle, latest,
      rx_fresh, appended>>

(* ------------------------- loop_critical_task ------------------------- *)
\* The measurement acquisition at the head of the tick, for the sample s
\* (one latest value per channel).
AcquireMeasures(r, s) ==
    /\ latest' = [latest EXCEPT ![r] = s]
    /\ I1_low_value' = [I1_low_value EXCEPT ![r] = Latch(InWindow(s.I1), s.I1, @)]
    /\ V1_low_value' = [V1_low_value EXCEPT ![r] = Latch(InWindow(s.V1), s.V1, @)]
    /\ V2_low_value' = [V2_low_value EXCEPT ![r] = Latch(InWindow(s.V2), s.V2, @)]
    /\ I2_low_value' = [I2_low_value EXCEPT ![r] = Latch(InWindow(s.I2), s.I2, @)]
    /\ V_high' = [V_high EXCEPT ![r] = Latch(VHighTaken(s.VH), s.VH, @)]

\* Mutant of StartNeeded: the start block runs on every Power tick.
StartAlways(p) == TRUE

\* if (!pwm_enable) { ... twist.startAll(); }
StartNeeded(p) == ~p

\* Mutants of StopNeeded: the stop block never runs, and runs on every Idle tick.
StopNever(p) == FALSE
StopAlways(p) == TRUE

\* if (pwm_enable == true) { twist.stopAll(); ... }
StopNeeded(p) == p = TRUE

\* The driver calls of the start block and of the stop block.
StartCalls(p) == IF StartNeeded(p) THEN <<"spin.led.turnOn", "twist.startAll">> ELSE <<>>
StopCalls(p) == IF StopNeeded(p) THEN <<"twist.stopAll", "spin.led.turnOff">> ELSE <<>>

\* The record block of both roles: every 4th Power cycle, write rec at the
\* cursor, then advance the cursor unless it is on the last slot.
RecordBlock(r, rec) ==
    IF RecordCycle(counter_time[r])
    THEN /\ record_array' = [record_array EXCEPT ![r][RecordSlot(counter[r])] = rec]
         /\ counter' = [counter EXCEPT ![r] = NextCounter(@)]
         /\ appended' = [appended EXCEPT ![r] = IF @ < AppendCap THEN @ + 1 ELSE @]
    ELSE UNCHANGED <<record_array, counter, appended>>

\* The server's Idle branch.
ServerIdle ==
    /\ IF StopNeeded(pwm_enable["SERVER"])
       THEN /\ k_gain' = K_GAIN_DEFAULT
            /\ tx_consigne' = [tx_consigne EXCEPT !.id_and_status = IdleStatus]
            /\ rs485' = tx_consigne'
            /\ hw_calls' = [hw_calls EXCEPT !["SERVER"] =
                              StopCalls(pwm_enable["SERVER"]) \o <<"rs485.startTransmission">>]
       ELSE /\ UNCHANGED <<k_gain, tx_consigne, rs485>>
            /\ hw_calls' = [hw_calls EXCEPT !["SERVER"] = <<>>]
    /\ pwm_enable' = [pwm_enable EXCEPT !["SERVER"] = FALSE]
    /\ last_eval' = [last_eval EXCEPT !["SERVER"] = "idle"]
    /\ UNCHANGED <<angle, Vgrid, duty_cycle, Iref, record_array, counter, appended,
                   counter_time>>

\* The server's Power branch, for the output u of pr_voltage.calculateWithReturn.
ServerPower(u) ==
    LET r == "SERVER"
        new_angle == (angle + 1) % PhaseSteps
        new_Vgrid == Vgrid_amplitude * ot_sin(new_angle)
        new_duty == ServerDuty(u)
        new_Iref == k_gain * I1_low_value'[r]
        rec == [I_low |-> I1_low_value'[r], V_low |-> V1_low_value'[r],
                Vhigh_value |-> V_high'[r], Iref |-> new_Iref,
                duty_cycle |-> new_duty, Vgrid |-> new_Vgrid, angle |-> new_angle]
    IN  /\ angle' = new_angle
        /\ Vgrid' = [Vgrid EXCEPT ![r] = new_Vgrid]
        /\ duty_cycle' = [duty_cycle EXCEPT ![r] = new_duty]
        /\ Iref' = [Iref EXCEPT ![r] = new_Iref]
        /\ tx_consigne' = [Vref_fromSERVER |-> new_Vgrid, Iref_fromSERVER |-> new_Iref,
                           w0_fromSERVER |-> w0[r],
                           id_and_status |-> PowerStatus(counter[r])]
        /\ rs485' = tx_consigne'
        /\ RecordBlock(r, rec)
        /\ hw_calls' = [hw_calls EXCEPT ![r] =
                          <<"twist.setAllDutyCycle", "rs485.startTransmission">>
                          \o StartCalls(pwm_enable[r])]
        /\ pwm_enable' = [pwm_enable EXCEPT ![r] = TRUE]
        /\ counter_time' = [counter_time EXCEPT ![r] = (@ + 1) % 4]
        /\ last_eval' = [last_eval EXCEPT ![r] = "power"]
        /\ UNCHANGED k_gain

\* The server build of the tick.
ServerTick(s, u) ==
    /\ AcquireMeasures("SERVER", s)
    /\ IF mode["SERVER"] = IDLEMODE
       THEN ServerIdle
       ELSE ServerPower(u)
    /\ UNCHANGED <<powered, mode, received_serial_char, w0, pr_value, rx_consigne,
                   status, is_downloading, app_pc, k_download, console, rx_fresh>>

\* The client's Power branch, for the output u of pr_current.calculateWithReturn.
ClientPower(u) ==
    LET r == "CLIENT"
        new_duty == ClientDuty(Vgrid[r], u)
        rec == [I_low |-> I1_low_value'[r], V_low |-> V1_low_value'[r],
                Vhigh_value |-> V_high'[r], Iref |-> Iref[r],
                duty_cycle |-> new_duty, Vgrid |-> Vgrid[r], angle |-> u]
    IN  /\ mode' = [mode EXCEPT ![r] = POWERMODE]
        /\ pr_value' = u
        /\ duty_cycle' = [duty_cycle EXCEPT ![r] = new_duty]
        /\ hw_calls' = [hw_calls EXCEPT ![r] =
                          <<"twist.setAllDutyCycle">> \o StartCalls(pwm_enable[r])]
        /\ pwm_enable' = [pwm_enable EXCEPT ![r] = TRUE]
        /\ RecordBlock(r, rec)
        /\ counter_time' = [counter_time EXCEPT ![r] = (@ + 1) % 4]
        /\ last_eval' = [last_eval EXCEPT ![r] = "power"]

\* The client's Idle branch.
ClientIdle ==
    /\ mode' = [mode EXCEPT !["CLIENT"] = IDLEMODE]
    /\ hw_calls' = [hw_calls EXCEPT !["CLIENT"] = StopCalls(pwm_enable["CLIENT"])]
    /\ pwm_enable' = [pwm_enable EXCEPT !["CLIENT"] =
                        IF StopNeeded(@) THEN FALSE ELSE @]
    /\ last_eval' = [last_eval EXCEPT !["CLIENT"] = "idle"]
    /\ UNCHANGED <<pr_value, duty_cycle, record_array, counter, appended, counter_time>>

\* The client build of the tick.
ClientTick(s, u) ==
    /\ AcquireMeasures("CLIENT", s)
    /\ IF RunRequested(status)
       THEN ClientPower(u)
       ELSE ClientIdle
    /\ rx_fresh' = FALSE
    /\ UNCHANGED <<powered, received_serial_char, Iref, Vgrid, w0, angle, k_gain,
                   tx_consigne, rx_consigne, status, is_downloading, app_pc,
                   k_download, console, rs485>>

\* One run of the critical task of board r on the sample s, the regulator
\* returning u.
loop_critical_task(r, s, u) ==
    /\ r \in powered
    /\ cycle' = [cycle EXCEPT ![r] = 1 - @]
    /\ IF r = "SERVER" THEN ServerTick(s, u) ELSE ClientTick(s, u)

(* --------------------------- environment ------------------------------ *)
\* A frame on the RS485 line.
Frame(st, vref, iref) ==
    [Vref_fromSERVER |-> vref, Iref_fromSERVER |-> iref, w0_fromSERVER |-> f0,
     id_and_status |-> st]

\* The nominal reading of the five channels, a second valid reading, and
\* readings with every channel at one out-of-window value.
NominalSample == Sample(2, 3, 1, 1, 40)
SecondSample == Sample(5, 5, 5, 5, 5)
FaultSample(v) == Sample(v, v, v, v, v)

\* The frames the server sends: idle, run and reset the cursor, run.
IdleFrame == Frame(IdleStatus, Vgrid_amplitude, 20)
ResetFrame == Frame(PowerStatus(0), Vgrid_amplitude, 20)
RunFrame == Frame(PowerStatus(1), Vgrid_amplitude, 20)

\* Frames of a frame generator: the three above, code 3 with the marker, and
\* status bytes without the marker the callback tests (no marker with codes 0
\* and 2, the top bit with code 2, the two top bits with code 2).
GenFrames ==
    {IdleFrame, ResetFrame, RunFrame, Frame(67, 0, 18),
     Frame(0, 0, 18), Frame(2, 0, 18), Frame(130, 0, 18), Frame(194, 0, 18)}

(* -------------------------- specifications ---------------------------- *)
\* One board runs alone: a server with nothing listening, or a client fed
\* by a frame generator.
Init ==
    /\ powered \in {{"SERVER"}, {"CLIENT"}}
    /\ InitGlobals

\* The whole program on a nominal reading and one regulator output: console
\* commands i, p, r, the application task with its download, the critical
\* task, and the client's reception of the server's three frames.
Next ==
    \/ \E r \in Roles, c \in {"i", "p", "r"} : loop_communication_task(r, c)
    \/ \E r \in Roles : loop_application_task(r)
    \/ \E r \in Roles : loop_critical_task(r, NominalSample, Udc)
    \/ \E f \in {IdleFrame, ResetFrame, RunFrame} : GenFrame(f)

Spec == Init /\ [][Next]_vars

\* The download under commands i, p and r with only the reset frame on the
\* client: the boards record in Power while the application task drains
\* the store.
NextDownload ==
    \/ \E r \in Roles, c \in {"i", "p", "r"} : loop_communication_task(r, c)
    \/ \E r \in Roles : loop_application_task(r)
    \/ \E r \in Roles : loop_critical_task(r, NominalSample, Udc)
    \/ GenFrame(ResetFrame)

\* The scheduler resumes the application task after each of its suspensions
\* (task.suspendBackgroundMs), so its next step is eventually taken.
FairSpec ==
    /\ Init
    /\ [][NextDownload]_vars
    /\ \A r \in Roles : WF_vars(loop_application_task(r))

\* The client's reception under every frame of the generator; the console
\* also reads h and a character outside the menu (no download).
NextFrames ==
    \/ \E r \in Roles, c \in {"i", "p", "h", "x"} : loop_communication_task(r, c)
    \/ \E r \in Roles : loop_application_task(r)
    \/ \E r \in Roles : loop_critical_task(r, NominalSample, Udc)
    \/ \E f \in GenFrames : GenFrame(f)

SpecFrames == Init /\ [][NextFrames]_vars

\* The regulator output at its two saturation bounds, so that successive
\* records and duty cycles differ (no download).
NextData ==
    \/ \E r \in Roles, c \in {"i", "p"} : loop_communication_task(r, c)
    \/ \E r \in Roles : loop_application_task(r)
    \/ \E r \in Roles, u \in {-Udc, Udc} : loop_critical_task(r, NominalSample, u)
    \/ \E f \in {IdleFrame, ResetFrame, RunFrame} : GenFrame(f)

SpecData == Init /\ [][NextData]_vars

\* The measurement acquisition under two valid readings, a reading above the
\* window and a reading on its lower edge; the boards go to Power and stay.
MeasSamples ==
    {NominalSample, SecondSample, FaultSample(20000), FaultSample(-MEAS_LIMIT)}

NextMeas ==
    \/ \E r \in Roles : loop_communication_task(r, "p")
    \/ \E r \in Roles : loop_application_task(r)
    \/ \E r \in Roles, s \in MeasSamples : loop_critical_task(r, s, Udc)
    \/ GenFrame(ResetFrame)

SpecMeas == Init /\ [][NextMeas]_vars

(* ------------------------------ claims -------------------------------- *)
\* The step is a run of board r's critical task.
TickStep(r) == cycle'[r] # cycle[r]

\* The step is a call of reception_function.
RxStep == rx_fresh' /\ (~rx_fresh \/ rx_consigne' # rx_consigne)

\* How often call x occurs in the call sequence q.
Occurrences(q, x) == Cardinality({i \in 1..Len(q) : q[i] = x})

\* C1: on the client, after a frame with status 0b10000010 (130) has been
\* received the record cursor is zero until the next critical tick, and that
\* tick takes the Power branch and leaves the PWM enabled.
C1_StatusDecode ==
    rx_consigne.id_and_status = 130 =>
        IF rx_fresh
        THEN counter["CLIENT"] = 0
        ELSE last_eval["CLIENT"] = "power" /\ pwm_enable["CLIENT"]

\* C2: on both roles a critical tick calls twist.startAll exactly when it
\* takes pwm_enable from false to true and twist.stopAll exactly when it takes
\* it from true to false; a tick that takes the same branch as the tick
\* before it calls neither; no other step makes a driver call.
C2_PwmEdgeOnly ==
    [][\A r \in Roles :
         IF TickStep(r)
         THEN /\ Occurrences(hw_calls'[r], "twist.startAll") =
                   (IF ~pwm_enable[r] /\ pwm_enable'[r] THEN 1 ELSE 0)
              /\ Occurrences(hw_calls'[r], "twist.stopAll") =
                   (IF pwm_enable[r] /\ ~pwm_enable'[r] THEN 1 ELSE 0)
              /\ last_eval'[r] = last_eval[r] =>
                   /\ Occurrences(hw_calls'[r], "twist.startAll") = 0
                   /\ Occurrences(hw_calls'[r], "twist.stopAll") = 0
         ELSE hw_calls'[r] = hw_calls[r] /\ pwm_enable'[r] = pwm_enable[r]]_vars

\* C2 witness: a board whose last two ticks both took the Power branch, the
\* second one without a start call.
C2_Witness ==
    \E r \in Roles :
        /\ last_eval[r] = "power"
        /\ pwm_enable[r]
        /\ Occurrences(hw_calls[r], "twist.setAllDutyCycle") = 1
        /\ Occurrences(hw_calls[r], "twist.startAll") = 0

\* C3: on both roles the record cursor stays within 0..RECORD_SIZE-1 (every
\* record write indexes inside record_array), and after more than RECORD_SIZE
\* record ticks without a reset it is RECORD_SIZE-1.
C3_CursorInBounds ==
    \A r \in Roles :
        /\ counter[r] \in 0..(RECORD_SIZE - 1)
        /\ RecordSlot(counter[r]) \in DOMAIN record_array[r]
        /\ appended[r] > RECORD_SIZE => counter[r] = RECORD_SIZE - 1

\* C3 witness: more than RECORD_SIZE record ticks have run since the last reset.
C3_Witness == \E r \in Roles : appended[r] > RECORD_SIZE

\* What the claimed window rule makes of a channel: the sample when it lies
\* in the open window (-10000, 10000), the retained value otherwise.
WindowRule(sample, held) ==
    IF sample > -10000 /\ sample < 10000 THEN sample ELSE held

\* C4: for each of the five channels a critical tick sets the retained value
\* to the latest sample when the sample lies in the open window
\* (-10000, 10000) and leaves it unchanged otherwise.
C4_WindowOnEveryChannel ==
    [][\A r \in Roles :
         TickStep(r) =>
           /\ I1_low_value'[r] = WindowRule(latest'[r].I1, I1_low_value[r])
           /\ V1_low_value'[r] = WindowRule(latest'[r].V1, V1_low_value[r])
           /\ V2_low_value'[r] = WindowRule(latest'[r].V2, V2_low_value[r])
           /\ I2_low_value'[r] = WindowRule(latest'[r].I2, I2_low_value[r])
           /\ V_high'[r] = WindowRule(latest'[r].VH, V_high[r])]_vars

\* What reception_function may change on the client.
rx_targets == <<status, Iref["CLIENT"], Vgrid["CLIENT"], w0["CLIENT"], counter["CLIENT"]>>

MarkerSet(s) == s >= 64 /\ s < 128

C6_DutyInUnitRange ==
    \A r \in Roles :
        Occurrences(hw_calls[r], "twist.setAllDutyCycle") > 0 =>
            duty_cycle[r] >= 0 /\ duty_cycle[r] <= 2 * Udc

\* C7: once every slot has been written and the cursor stands on
\* RECORD_SIZE-1, a critical tick modifies no slot of record_array.
C7_FullStoreFrozen ==
    [][\A r \in Roles :
         TickStep(r) /\ counter[r] = RECORD_SIZE - 1 /\ appended[r] >= RECORD_SIZE =>
           record_array'[r] = record_array[r]]_vars

\* The server's tick runs the Power branch.
ServerPowerTick == TickStep("SERVER") /\ mode["SERVER"] = POWERMODE

\* C8 as claimed: of a run of consecutive Power ticks of the server the first
\* transmits the reset code (low bits 2) and every later one the continue
\* code (low bits 1).
C8_ResetOnFirstTickOnly ==
    [][ServerPowerTick =>
         rs485'.id_and_status % 4 = (IF last_eval["SERVER"] = "power" THEN 1 ELSE 2)]_vars

\* C8 as amended: every Power tick of the server transmits the reset code
\* when the record cursor is zero as the tick builds the frame and the
\* continue code otherwise; the cursor is zero on the first Power tick of
\* every session, so that tick transmits the reset code.
C8_ResetWhileCursorZero ==
    [][ServerPowerTick =>
         /\ rs485' = tx_consigne'
         /\ rs485'.id_and_status \div 64 = 1
         /\ rs485'.id_and_status % 4 = (IF counter["SERVER"] = 0 THEN 2 ELSE 1)
         /\ last_eval["SERVER"] # "power" => rs485'.id_and_status % 4 = 2]_vars

\* C8 witness: the last tick was a later tick of a session (the PWM was
\* already running) and it transmitted the reset code.
C8_Witness ==
    /\ last_eval["SERVER"] = "power"
    /\ Occurrences(hw_calls["SERVER"], "twist.startAll") = 0
    /\ Occurrences(hw_calls["SERVER"], "rs485.startTransmission") = 1
    /\ rs485 = tx_consigne
    /\ tx_consigne.id_and_status % 4 = 2

\* C9: a 'p' read while is_downloading is set changes nothing but the
\* character read; a 'p' read while it is clear sets mode to Power and
\* changes nothing else; and outside the client's critical tick mode goes to
\* Power only by a 'p' read while is_downloading is clear.
C9_PowerIgnoredWhileDownloading ==
    [][\A r \in Roles :
         /\ received_serial_char'[r] = "p" /\ received_serial_char[r] # "p" =>
              IF is_downloading[r]
              THEN vars_but_char' = vars_but_char
              ELSE /\ mode' = [mode EXCEPT ![r] = POWERMODE]
                   /\ vars_but_char_mode' = vars_but_char_mode
         /\ ~TickStep(r) /\ mode[r] # POWERMODE /\ mode'[r] = POWERMODE =>
              received_serial_char'[r] = "p" /\ ~is_downloading[r]]_vars

\* C9 witness: the server has read 'p' during a download and is still Idle.
C9_Witness ==
    /\ received_serial_char["SERVER"] = "p"
    /\ is_downloading["SERVER"]
    /\ mode["SERVER"] = IDLEMODE

\* Word k of the backing store arr: field k mod 7 of record k div 7.
StoreWord(arr, k) == arr[k \div NB_CURVES][RecordFields[(k % NB_CURVES) + 1]]

\* C10: the download prints the start marker, then the RECORD_SIZE*NB_CURVES
\* words of the store in index order from word 0, each as the store holds it
\* when printed, then the end marker, and only then clears is_downloading; no
\* printing step modifies record_array or the cursor; and with the
\* application task scheduled, a download requested by 'r' terminates.
C10_DownloadDrains ==
    /\ [][\A r \in Roles :
            /\ console'[r] # console[r] =>
                 /\ record_array'[r] = record_array[r]
                 /\ counter'[r] = counter[r]
                 /\ \/ /\ is_downloading[r] /\ is_downloading'[r]
                       /\ console'[r] = [lines |-> 1, last |-> <<"begin record">>]
                    \/ /\ is_downloading[r] /\ is_downloading'[r]
                       /\ console[r].lines \in 1..(RECORD_SIZE * NB_CURVES)
                       /\ console'[r].lines = console[r].lines + 1
                       /\ console'[r].last =
                            <<"word", StoreWord(record_array[r], console[r].lines - 1)>>
                    \/ /\ is_downloading[r] /\ ~is_downloading'[r]
                       /\ console[r].lines = RECORD_SIZE * NB_CURVES + 1
                       /\ console'[r] = [lines |-> RECORD_SIZE * NB_CURVES + 2,
                                         last |-> <<"end record">>]
            /\ is_downloading[r] /\ ~is_downloading'[r] =>
                 console'[r].last = <<"end record">>]_vars
    /\ \A r \in Roles : is_downloading[r] ~> ~is_downloading[r]

\* C10 witness: a download has run to its end marker.
C10_Witness ==
    \E r \in Roles :
        /\ ~is_downloading[r]
        /\ console[r] = [lines |-> RECORD_SIZE * NB_CURVES + 2, last |-> <<"end record">>]

\* The tick of board r evaluates Power: the server reads mode, the client
\* derives mode from status and stores it.
EvaluatedPower(r) ==
    IF r = "SERVER" THEN mode[r] = POWERMODE ELSE mode'[r] = POWERMODE

\* C11: both roles start in Idle with pwm_enable false; at the end of every
\* critical tick pwm_enable is true exactly when the tick evaluated Power;
\* pwm_enable becomes true only in a tick that evaluates Power and false only
\* in a tick that evaluates Idle.
C11_PwmFollowsMode ==
    /\ \A r \in Roles : mode[r] = IDLEMODE /\ ~pwm_enable[r]
    /\ [][\A r \in Roles :
            /\ TickStep(r) => (pwm_enable'[r] <=> EvaluatedPower(r))
            /\ ~pwm_enable[r] /\ pwm_enable'[r] => TickStep(r) /\ EvaluatedPower(r)
            /\ pwm_enable[r] /\ ~pwm_enable'[r] => TickStep(r) /\ ~EvaluatedPower(r)]_vars

\* C11 witness: the client's last tick evaluated Idle and switched the PWM
\* off, which an earlier tick evaluating Power had switched on.
C11_Witness ==
    /\ last_eval["CLIENT"] = "idle"
    /\ Occurrences(hw_calls["CLIENT"], "twist.stopAll") = 1
    /\ ~pwm_enable["CLIENT"]
    /\ mode["CLIENT"] = IDLEMODE

\* Status byte s carries a run code: its low two bits are 1 or 2.
RunCode(s) == s % 4 = 1 \/ s % 4 = 2

\* C12: on the client status is the status of the last accepted frame (0
\* before the first); at the end of every critical tick mode is Power exactly
\* when the low two bits of status are 1 or 2, whatever the console wrote to
\* mode before the tick; and a tick takes the Power branch only after a frame
\* with the marker and a run code has been accepted.
C12_ClientModeFromStatus ==
    /\ status = 0
    /\ [][/\ status' # status =>
               RxStep /\ MarkerSet(rx_consigne'.id_and_status)
                      /\ status' = rx_consigne'.id_and_status
          /\ TickStep("CLIENT") =>
               /\ mode'["CLIENT"] = (IF RunCode(status) THEN POWERMODE ELSE IDLEMODE)
               /\ pwm_enable'["CLIENT"] = RunCode(status)
               /\ mode'["CLIENT"] = POWERMODE => MarkerSet(status)]_vars

\* C12 witness: the client read 'p' while its accepted status carried code 3,
\* and the tick after that settled on Idle.
C12_Witness ==
    /\ received_serial_char["CLIENT"] = "p"
    /\ status = 67
    /\ last_eval["CLIENT"] = "idle"
    /\ mode["CLIENT"] = IDLEMODE
    /\ ~rx_fresh

\* C13: when reception_function accepts a frame whose status low bits are 2,
\* the client's record cursor is zero when the callback returns.
C13_ResetOnAcceptedResetCode ==
    [][RxStep /\ MarkerSet(rx_consigne'.id_and_status)
              /\ rx_consigne'.id_and_status % 4 = 2
         => counter'["CLIENT"] = 0]_vars

(* ------------------------- the server's gain -------------------------- *)
\* The server alone under commands i, p and l: the droop gain is raised
\* between Power sessions and within them.
NextGain ==
    \/ \E c \in {"i", "p", "l"} : loop_communication_task("SERVER", c)
    \/ loop_application_task("SERVER")
    \/ loop_critical_task("SERVER", NominalSample, Udc)

SpecGain == Init /\ [][NextGain]_vars

\* C14: a server tick that evaluates Idle with pwm_enable true disables the
\* PWM (one twist.stopAll), sets k_gain to its default 1.0 and starts exactly
\* one transmission, of the transmit buffer with the marker and low bits 0; a
\* server tick that evaluates Idle with pwm_enable false starts no
\* transmission and changes neither k_gain nor the transmit buffer.
C14_IdleEntryFrameOnce ==
    [][TickStep("SERVER") /\ mode["SERVER"] = IDLEMODE =>
         IF pwm_enable["SERVER"]
         THEN /\ ~pwm_enable'["SERVER"]
              /\ Occurrences(hw_calls'["SERVER"], "twist.stopAll") = 1
              /\ k_gain' = 10
              /\ Occurrences(hw_calls'["SERVER"], "rs485.startTransmission") = 1
              /\ rs485' = tx_consigne'
              /\ tx_consigne'.id_and_status \div 64 = 1
              /\ tx_consigne'.id_and_status % 64 = 0
         ELSE /\ ~pwm_enable'["SERVER"]
              /\ Occurrences(hw_calls'["SERVER"], "rs485.startTransmission") = 0
              /\ k_gain' = k_gain
              /\ tx_consigne' = tx_consigne
              /\ rs485' = rs485]_vars

\* C14 witness: the server sent a Power frame with a raised gain (Iref is
\* 1.1 times the measured current), then read 'i', and its last tick was the
\* Idle entry: PWM stopped, gain back at the default, idle frame on the line.
C14_Witness ==
    /\ received_serial_char["SERVER"] = "i"
    /\ last_eval["SERVER"] = "idle"
    /\ Occurrences(hw_calls["SERVER"], "twist.stopAll") = 1
    /\ k_gain = K_GAIN_DEFAULT
    /\ rs485.id_and_status = 64
    /\ rs485.Iref_fromSERVER = (K_GAIN_DEFAULT + 1) * NominalSample.I1

\* Transmissions the server's last tick started.
Transmissions == Occurrences(hw_calls["SERVER"], "rs485.startTransmission")

\* C15 as claimed: every critical tick of the server, in Idle or in Power,
\* starts one transmission.
C15_TransmitEveryTick ==
    [][TickStep("SERVER") => Transmissions' = 1]_vars

\* C15 as amended: a server tick starts one transmission of the transmit
\* buffer when it evaluates Power or is the Idle tick that finds pwm_enable
\* true, and none otherwise; a tick that starts none leaves the transmit
\* buffer and the frame on the line as they were.
C15_TransmitInPowerAndOnIdleEntry ==
    [][TickStep("SERVER") =>
         IF mode["SERVER"] = POWERMODE \/ pwm_enable["SERVER"]
         THEN Transmissions' = 1 /\ rs485' = tx_consigne'
         ELSE Transmissions' = 0 /\ tx_consigne' = tx_consigne /\ rs485' = rs485]_vars

\* C15 witness: the server's last tick evaluated Idle after the idle frame
\* had gone out and started no transmission.
C15_Witness ==
    /\ last_eval["SERVER"] = "idle"
    /\ hw_calls["SERVER"] = <<>>
    /\ rs485 # NoFrame
    /\ tx_consigne.id_and_status = 64

\* C16: on both roles the cursor changes only by one up, in a tick that
\* evaluates Power with counter_time a multiple of 4, or to zero, on an 'i'
\* command or in a reception of an accepted frame with the reset code; such a
\* tick below RECORD_SIZE-1 does move it up, and an 'i' does zero it.
C16_CursorMoves ==
    [][\A r \in Roles :
         /\ counter'[r] # counter[r] =>
              \/ /\ TickStep(r) /\ EvaluatedPower(r)
                 /\ counter_time[r] % 4 = 0
                 /\ counter'[r] = counter[r] + 1
              \/ /\ ~TickStep(r)
                 /\ counter'[r] = 0
                 /\ \/ received_serial_char'[r] = "i"
                    \/ /\ r = "CLIENT" /\ RxStep
                       /\ MarkerSet(rx_consigne'.id_and_status)
                       /\ rx_consigne'.id_and_status % 4 = 2
         /\ TickStep(r) /\ EvaluatedPower(r) /\ counter_time[r] % 4 = 0
              /\ counter[r] < RECORD_SIZE - 1 => counter'[r] = counter[r] + 1
         /\ TickStep(r) /\ ~EvaluatedPower(r) =>
              counter'[r] = counter[r] /\ record_array'[r] = record_array[r]
         /\ received_serial_char'[r] = "i" /\ received_serial_char[r] # "i" =>
              counter'[r] = 0]_vars

\* C16 witness: the last tick evaluated Power off the recording cycle and
\* left the cursor on the record written before.
C16_Witness ==
    \E r \in Roles :
        /\ last_eval[r] = "power"
        /\ Occurrences(hw_calls[r], "twist.setAllDutyCycle") = 1
        /\ counter_time[r] # 1
        /\ counter[r] = 1

\* C17: record_array is written only by the critical tick, and no step
\* writes it while is_downloading is set.
C17_NoRecordWriteWhileDownloading ==
    [][\A r \in Roles :
         /\ record_array'[r] # record_array[r] => TickStep(r)
         /\ is_downloading[r] => record_array'[r] = record_array[r]]_vars

(* ------------------------- the RS485 link ----------------------------- *)
\* Everything but rs485.
vars_but_rs485 ==
    <<powered, pwm_enable, mode, received_serial_char, I1_low_value, V1_low_value,
      V2_low_value, I2_low_value, V_high, Iref, Vgrid, w0, duty_cycle, angle, k_gain,
      pr_value, tx_consigne, rx_consigne, status, counter_time, is_downloading,
      record_array, counter, app_pc, k_download, console, hw_calls, last_eval, cycle,
      latest, rx_fresh, appended>>

\* A server and a client on one RS485 line.
InitLink ==
    /\ powered = Roles
    /\ InitGlobals

\* The transport has copied the frame the server handed to it into the
\* client's rx_consigne and calls reception_function.
Deliver ==
    /\ powered = Roles
    /\ rs485 # NoFrame
    /\ reception_function(rs485)

\* The frame on the line does not reach the client.
Lose ==
    /\ rs485 # NoFrame
    /\ rs485' = NoFrame
    /\ UNCHANGED vars_but_rs485

\* The critical tasks of the two boards run on one synchronised period
\* (communication.sync): the server's tick, then the client's.
SyncTick(r) ==
    /\ IF r = "SERVER"
       THEN cycle["SERVER"] = cycle["CLIENT"]
       ELSE cycle["SERVER"] # cycle["CLIENT"]
    /\ loop_critical_task(r, NominalSample, Udc)

\* The operator of the server starts one Power session and ends it: 'p' is
\* the first character typed and 'i' the second.
SessionCommand(c) ==
    /\ received_serial_char["SERVER"] = (IF c = "p" THEN "NUL" ELSE "p")
    /\ loop_communication_task("SERVER", c)

\* The pair during one Power session of the server.
NextLink ==
    \/ \E c \in {"i", "p"} : SessionCommand(c)
    \/ \E r \in Roles : loop_application_task(r)
    \/ \E r \in Roles : SyncTick(r)
    \/ Deliver
    \/ Lose

\* The critical tasks are started by the timer every period, and the
\* transport delivers a frame that is not lost.
FairLink ==
    /\ InitLink
    /\ [][NextLink]_vars
    /\ \A r \in Roles : WF_vars(SyncTick(r))
    /\ WF_vars(Deliver)

\* C18: every frame the server hands to the transport carries one of the
\* statuses (1<<6)+0, (1<<6)+1, (1<<6)+2, each with the two top bits 01 that
\* the client's acceptance test asks for, and every delivery of the frame on
\* the line sets the client's status, Iref, Vgrid and w0 to the frame's.
C18_ServerFramesAccepted ==
    /\ [](rs485 # NoFrame =>
            /\ rs485.id_and_status \in {64, 65, 66}
            /\ rs485.id_and_status \div 64 = 1)
    /\ [][RxStep =>
            /\ rx_consigne' = rs485
            /\ status' = rs485.id_and_status
            /\ Iref'["CLIENT"] = rs485.Iref_fromSERVER
            /\ Vgrid'["CLIENT"] = rs485.Vref_fromSERVER
            /\ w0'["CLIENT"] = rs485.w0_fromSERVER]_vars

\* C18 witness: the server's idle frame has been delivered and the client
\* holds its status and references.
C18_Witness ==
    /\ rx_fresh
    /\ rs485 # NoFrame
    /\ rx_consigne = rs485
    /\ status = 64
    /\ Iref["CLIENT"] = K_GAIN_DEFAULT * NominalSample.I1

\* C19: whenever the server's tick has left Power for Idle while the client
\* is in Power with its PWM on, the client eventually is in Idle with its PWM
\* off, unless the server is commanded back to Power first.
C19_ClientFollowsServerToIdle ==
    (/\ last_eval["SERVER"] = "idle"
     /\ mode["SERVER"] = IDLEMODE
     /\ mode["CLIENT"] = POWERMODE
     /\ pwm_enable["CLIENT"])
      ~> (\/ mode["CLIENT"] = IDLEMODE /\ ~pwm_enable["CLIENT"]
          \/ mode["SERVER"] = POWERMODE)

=============================================================================
